---- MODULE Spec2Model ----
(***************************************************************************)
(* A model of benchlib's benchmark suite driver (benchmark.rs) and of its  *)
(* perf-counter measurement engine (measure/perf_counter/unix.rs).         *)
(*                                                                         *)
(* The process is single threaded.  `pc` is the position of the one        *)
(* thread of control; `events` is the history of the externally visible    *)
(* steps it took (a ghost variable: nothing in the model reads it to       *)
(* decide what to do).                                                     *)
(*                                                                         *)
(* Strings are sequences of byte values, compared as Rust compares `str`   *)
(* (bytewise, lexicographic).  Option<T> is <<>> for None and <<x>> for    *)
(* Some(x).  The values the hardware counters and the clock deliver are    *)
(* abstracted to the identity of the unit of work that ran while they were *)
(* observing: every constructed unit gets a fresh id.                      *)
(***************************************************************************)
EXTENDS Naturals, Sequences, FiniteSets

\* ------------------------------------------------------------------ bounds

\* The most `register` calls the suite definition makes.
MaxReg == 3

\* The largest iteration count the command line supplies.
MaxIter == 2

\* The benchmark names a suite definition registers: "a", "b", "c", "ab", "ba".
NameUniverse == {<<97>>, <<98>>, <<99>>, <<97, 98>>, <<98, 97>>}

\* The prefixes the command line supplies for --include / --exclude: "a", "ab".
PrefixUniverse == {<<97>>, <<97, 98>>}

None == <<>>

Some(x) == <<x>>

OptPrefix == {None} \cup {Some(p) : p \in PrefixUniverse}

\* ------------------------------------------------------------------ state

VARIABLES
    pc,           \* position of the thread of control
    panic_msg,    \* the panic that ended the process, "" while there is none
    benchmarks,   \* BenchmarkSuite.benchmarks: name -> wrapper (the id of its constructor)
    regCalls,     \* history: the names passed to `register`, in call order
    args,         \* the parsed command line
    items,        \* run_benchmark: the filtered, sorted Vec of (name, wrapper)
    passed,       \* history: what passes_filter returned for each name it was asked about
    cur,          \* run_benchmark: how many elements of `items` the outer loop has taken
    i,            \* run_benchmark: the inner loop's counter
    stats,        \* run_benchmark: the Vec<BenchmarkStats> of the current benchmark
    group,        \* benchmark_function: the perf_event Group, None or Some(group)
    counters,     \* benchmark_function: the Counters struct, None or Some(counters)
    enable_ret,   \* benchmark_function: the result of group.enable()
    measurement,  \* benchmark_function: the result of group.read(), None or Some(counts)
    func,         \* benchmark_function: the constructed unit of work, None or Some(unit)
    duration,     \* benchmark_function: start.elapsed()
    nunits,       \* history: how many units of work were constructed so far
    live_groups,  \* how many perf_event groups the process holds open
    stdout,       \* the messages written to the structured output stream
    events        \* history: the visible steps taken, in order

vars == <<pc, panic_msg, benchmarks, regCalls, args, items, passed, cur, i, stats,
          group, counters, enable_ret, measurement, func, duration, nunits,
          live_groups, stdout, events>>

suiteVars == <<benchmarks, regCalls, args>>

loopVars == <<items, passed, cur, i, stats>>

bfVars == <<group, counters, enable_ret, measurement, func, duration>>

\* ------------------------------------------------------------------ helpers

Ev(kind, name, arg) == [ev |-> kind, name |-> name, arg |-> arg]

\* str::starts_with
StartsWith(s, p) == Len(p) <= Len(s) /\ SubSeq(s, 1, Len(p)) = p

\* Ord for str: bytewise lexicographic, a proper prefix is smaller.
RECURSIVE StrLess(_, _)
StrLess(a, b) ==
    IF a = <<>> THEN b # <<>>
    ELSE IF b = <<>> THEN FALSE
    ELSE IF Head(a) # Head(b) THEN Head(a) < Head(b)
    ELSE StrLess(Tail(a), Tail(b))

\* The orders in which a HashMap may hand out the keys in set S: the order
\* depends on the per-process random hash seed, so it is any enumeration.
Enumerations(S) ==
    {s \in [1..Cardinality(S) -> S] : \A x, y \in 1..Cardinality(S) : s[x] = s[y] => x = y}

\* Mutant of HashMapInsert: the insertion sets every entry to the new wrapper.
HashMapInsert_clobbers(map, name, wrapper) ==
    [n \in (DOMAIN map) \cup {name} |-> wrapper]

\* HashMap::insert: the entry of `name` is set to `wrapper`, replacing an old one.
HashMapInsert(map, name, wrapper) ==
    [n \in (DOMAIN map) \cup {name} |-> IF n = name THEN wrapper ELSE map[n]]

\* Mutant of passes_filter: with both prefixes given, the exclude prefix is ignored.
passes_filter_include_wins(name, exclude, include) ==
    CASE include # None -> StartsWith(name, include[1])
      [] exclude # None /\ include = None -> ~StartsWith(name, exclude[1])
      [] OTHER -> TRUE

\* Tests if the name of the benchmark passes through the include and exclude
\* filter flags.  The parameters come in the order of the source: exclude first.
passes_filter(name, exclude, include) ==
    CASE exclude # None /\ include # None ->
            StartsWith(name, include[1]) /\ ~StartsWith(name, exclude[1])
      [] exclude = None /\ include # None -> StartsWith(name, include[1])
      [] exclude # None /\ include = None -> ~StartsWith(name, exclude[1])
      [] OTHER -> TRUE

\* Mutant of FilterClosure: the two prefixes are passed in the other order.
FilterClosure_swapped(name, a) == passes_filter(name, a.include, a.exclude)

\* The closure run_benchmark hands to Iterator::filter.
FilterClosure(name, a) == passes_filter(name, a.exclude, a.include)

\* Mutant of sort_unstable_by_key: the items stay in the order the map gave them.
sort_missing(s) == s

\* slice::sort_unstable_by_key(|item| item.0), as an insertion sort.
RECURSIVE SortInsert(_, _)
SortInsert(x, s) ==
    IF s = <<>> THEN <<x>>
    ELSE IF StrLess(Head(s).name, x.name) THEN <<Head(s)>> \o SortInsert(x, Tail(s))
    ELSE <<x>> \o s

RECURSIVE sort_unstable_by_key(_)
sort_unstable_by_key(s) ==
    IF s = <<>> THEN <<>> ELSE SortInsert(Head(s), sort_unstable_by_key(Tail(s)))

\* benchmarks.into_iter().filter(..).collect(), with the map handing out its
\* entries in `order`.
CollectFiltered(order, map, a) ==
    LET all == [k \in 1..Len(order) |-> [name |-> order[k], func |-> map[order[k]]]]
        Keep(item) == FilterClosure(item.name, a)
    IN  SelectSeq(all, Keep)

\* What parse_cli can return.
ArgsUniverse ==
    {[mode |-> "list", iterations |-> 0, exclude |-> None, include |-> None]}
    \cup [mode : {"benchmark"}, iterations : 0..MaxIter, exclude : OptPrefix, include : OptPrefix]

NoArgs == [mode |-> "unparsed", iterations |-> 0, exclude |-> None, include |-> None]

EmptyMap == [n \in {} |-> 0]

\* ------------------------------------------------------------------ Init

Init ==
    /\ pc = "define"
    /\ panic_msg = ""
    /\ benchmarks = EmptyMap
    /\ regCalls = <<>>
    /\ args = NoArgs
    /\ items = <<>>
    /\ passed = [n \in {} |-> FALSE]
    /\ cur = 0
    /\ i = 0
    /\ stats = <<>>
    /\ group = None
    /\ counters = None
    /\ enable_ret = "unset"
    /\ measurement = None
    /\ func = None
    /\ duration = None
    /\ nunits = 0
    /\ live_groups = 0
    /\ stdout = <<>>
    /\ events = <<>>

\* ------------------------------------------------------------------ the suite

\* An Err travels up through every `?` to `expect("Benchmark suite has failed")`,
\* which panics.  Leaving benchmark_function drops the group it still holds.
Fail ==
    /\ pc' = "panicked"
    /\ panic_msg' = "Benchmark suite has failed"
    /\ group' = None
    /\ live_groups' = IF group # None THEN live_groups - 1 ELSE live_groups

\* Mutant of Register: a second registration replaces the first without a panic.
Register_no_panic(name) ==
    /\ pc = "define"
    /\ Len(regCalls) < MaxReg
    /\ regCalls' = Append(regCalls, name)
    /\ benchmarks' = HashMapInsert(benchmarks, name, Len(regCalls) + 1)
    /\ UNCHANGED <<pc, panic_msg, args, loopVars, bfVars, nunits, live_groups, stdout,
                   events>>

\* BenchmarkSuite::register, called by the suite definition.
Register(name) ==
    /\ pc = "define"
    /\ Len(regCalls) < MaxReg
    /\ regCalls' = Append(regCalls, name)
    /\ benchmarks' = HashMapInsert(benchmarks, name, Len(regCalls) + 1)
    /\ IF name \in DOMAIN benchmarks
       THEN pc' = "panicked" /\ panic_msg' = "registered twice"
       ELSE UNCHANGED <<pc, panic_msg>>
    /\ UNCHANGED <<args, loopVars, bfVars, nunits, live_groups, stdout, events>>

\* Mutant of SuiteRun: the arms of the match on the mode are exchanged.
SuiteRun_arms_exchanged(a) ==
    /\ pc = "define"
    /\ args' = a
    /\ pc' = IF a.mode = "list" THEN "run_benchmark" ELSE "list_benchmarks"
    /\ events' = Append(events, Ev("run", <<>>, 0))
    /\ UNCHANGED <<panic_msg, benchmarks, regCalls, loopVars, bfVars, nunits,
                   live_groups, stdout>>

\* BenchmarkSuite::run: the suite definition has returned, the command line
\* parses and selects the mode.
SuiteRun(a) ==
    /\ pc = "define"
    /\ args' = a
    /\ pc' = IF a.mode = "list" THEN "list_benchmarks" ELSE "run_benchmark"
    /\ events' = Append(events, Ev("run", <<>>, 0))
    /\ UNCHANGED <<panic_msg, benchmarks, regCalls, loopVars, bfVars, nunits,
                   live_groups, stdout>>

\* BenchmarkSuite::run: parse_cli()? returns the error.
SuiteRunParseErr ==
    /\ pc = "define"
    /\ Fail
    /\ events' = Append(events, Ev("run", <<>>, 0))
    /\ UNCHANGED <<suiteVars, loopVars, counters, enable_ret, measurement, func,
                   duration, nunits, stdout>>

\* list_benchmarks: the keys, in the order the map hands them out, as one message.
ListBenchmarks ==
    /\ pc = "list_benchmarks"
    /\ \E order \in Enumerations(DOMAIN benchmarks) :
          stdout' = Append(stdout, [kind |-> "list", name |-> <<>>, payload |-> order])
    /\ events' = Append(events, Ev("emit", <<>>, Len(stdout) + 1))
    /\ pc' = "exited_ok"
    /\ UNCHANGED <<panic_msg, suiteVars, loopVars, bfVars, nunits, live_groups>>

\* list_benchmarks: serde_json::to_writer(..)? returns the error.
ListBenchmarksErr ==
    /\ pc = "list_benchmarks"
    /\ Fail
    /\ UNCHANGED <<suiteVars, loopVars, counters, enable_ret, measurement, func,
                   duration, nunits, stdout, events>>

\* run_benchmark: filter, collect, sort.
RunBenchmarkSelect ==
    /\ pc = "run_benchmark"
    /\ \E order \in Enumerations(DOMAIN benchmarks) :
          items' = sort_unstable_by_key(CollectFiltered(order, benchmarks, args))
    /\ passed' = [n \in DOMAIN benchmarks |-> FilterClosure(n, args)]
    /\ pc' = "for_items"
    /\ UNCHANGED <<panic_msg, suiteVars, cur, i, stats, bfVars, nunits, live_groups,
                   stdout, events>>

\* Mutant of ForItems: an empty selection is treated as an error.
ForItems_empty_is_error ==
    /\ pc = "for_items"
    /\ IF cur < Len(items)
       THEN /\ cur' = cur + 1
            /\ stats' = <<>>
            /\ i' = 0
            /\ pc' = "for_iter"
       ELSE /\ pc' = IF Len(items) = 0 THEN "panicked" ELSE "exited_ok"
            /\ UNCHANGED <<cur, stats, i>>
    /\ UNCHANGED <<panic_msg, suiteVars, items, passed, bfVars, nunits, live_groups,
                   stdout, events>>

\* run_benchmark: the outer loop takes the next item, or the function returns Ok.
ForItems ==
    /\ pc = "for_items"
    /\ IF cur < Len(items)
       THEN /\ cur' = cur + 1
            /\ stats' = <<>>
            /\ i' = 0
            /\ pc' = "for_iter"
       ELSE /\ pc' = "exited_ok"
            /\ UNCHANGED <<cur, stats, i>>
    /\ UNCHANGED <<panic_msg, suiteVars, items, passed, bfVars, nunits, live_groups,
                   stdout, events>>

\* Mutant of ForIter: the inner loop runs once more than `iterations`.
ForIter_one_more ==
    /\ pc = "for_iter"
    /\ pc' = IF i <= args.iterations THEN "create_group" ELSE "output_message"
    /\ UNCHANGED <<panic_msg, suiteVars, loopVars, bfVars, nunits, live_groups,
                   stdout, events>>

\* run_benchmark: the inner loop calls (def.func)(), or ends.
ForIter ==
    /\ pc = "for_iter"
    /\ pc' = IF i < args.iterations THEN "create_group" ELSE "output_message"
    /\ UNCHANGED <<panic_msg, suiteVars, loopVars, bfVars, nunits, live_groups,
                   stdout, events>>

\* Mutant of OutputMessage: the result is kept back instead of written.
OutputMessage_kept_back ==
    /\ pc = "output_message"
    /\ pc' = "for_items"
    /\ UNCHANGED <<panic_msg, suiteVars, loopVars, bfVars, nunits, live_groups, stdout,
                   events>>

\* run_benchmark: output_message writes the BenchmarkResult.
OutputMessage ==
    /\ pc = "output_message"
    /\ stdout' = Append(stdout, [kind |-> "result", name |-> items[cur].name,
                                 payload |-> stats])
    /\ events' = Append(events, Ev("emit", items[cur].name, Len(stdout) + 1))
    /\ pc' = "for_items"
    /\ UNCHANGED <<panic_msg, suiteVars, loopVars, bfVars, nunits, live_groups>>

\* Mutant of OutputMessageErr: the write error is dropped and the loop goes on.
OutputMessageErr_ignored ==
    /\ pc = "output_message"
    /\ pc' = "for_items"
    /\ events' = Append(events, Ev("emit_failed", items[cur].name, 0))
    /\ UNCHANGED <<panic_msg, suiteVars, loopVars, bfVars, nunits, live_groups, stdout>>

\* run_benchmark: output_message(..)? returns the error.
OutputMessageErr ==
    /\ pc = "output_message"
    /\ Fail
    /\ events' = Append(events, Ev("emit_failed", items[cur].name, 0))
    /\ UNCHANGED <<suiteVars, loopVars, counters, enable_ret, measurement, func,
                   duration, nunits, stdout>>

\* ------------------------------------------------------------------ the measurement

\* The hardware events prepare_counters adds to the group, in its order.
HardwareEvents ==
    <<"CPU_CYCLES", "INSTRUCTIONS", "BRANCH_MISSES", "CACHE_MISSES", "CACHE_REFERENCES">>

\* The name benchmark_function was called with.
CurName == items[cur].name

\* create_group: Group::new() succeeds.
CreateGroup ==
    /\ pc = "create_group"
    /\ group' = Some([enabled |-> FALSE, members |-> <<>>, observed |-> <<>>])
    /\ live_groups' = live_groups + 1
    /\ events' = Append(events, Ev("group_new", CurName, 0))
    /\ pc' = "prepare_counters"
    /\ UNCHANGED <<panic_msg, suiteVars, loopVars, counters, enable_ret, measurement,
                   func, duration, nunits, stdout>>

\* create_group: Group::new() fails, create_group()? returns the error.
CreateGroupErr ==
    /\ pc = "create_group"
    /\ Fail
    /\ events' = Append(events, Ev("group_new_failed", CurName, 0))
    /\ UNCHANGED <<suiteVars, loopVars, counters, enable_ret, measurement, func,
                   duration, nunits, stdout>>

\* The add_event calls that build counters 1..n.
AddEvents(n) == [k \in 1..n |-> Ev("add_counter", CurName, k)]

\* prepare_counters: all five counters are built; Counters holds their handles.
PrepareCounters ==
    /\ pc = "prepare_counters"
    /\ group' = Some([group[1] EXCEPT !.members = HardwareEvents])
    /\ counters' = Some([cycles |-> 1, instructions |-> 2, branch_misses |-> 3,
                         cache_misses |-> 4, cache_references |-> 5])
    /\ events' = events \o AddEvents(Len(HardwareEvents))
    /\ pc' = "construct1"
    /\ UNCHANGED <<panic_msg, suiteVars, loopVars, enable_ret, measurement, func,
                   duration, nunits, live_groups, stdout>>

\* Mutant of PrepareCountersErr: the counter that cannot be built is skipped and
\* the measurement goes on with the ones built before it.
PrepareCountersErr_skips(k) ==
    /\ pc = "prepare_counters"
    /\ group' = Some([group[1] EXCEPT !.members = SubSeq(HardwareEvents, 1, k - 1)])
    /\ counters' = Some([cycles |-> 1, instructions |-> 2, branch_misses |-> 3,
                         cache_misses |-> 4, cache_references |-> 5])
    /\ events' = (events \o AddEvents(k - 1)) \o <<Ev("add_counter_failed", CurName, k)>>
    /\ pc' = "construct1"
    /\ UNCHANGED <<panic_msg, suiteVars, loopVars, enable_ret, measurement, func,
                   duration, nunits, live_groups, stdout>>

\* prepare_counters: building counter k fails, add_event(..)? returns the error.
PrepareCountersErr(k) ==
    /\ pc = "prepare_counters"
    /\ Fail
    /\ events' = (events \o AddEvents(k - 1)) \o <<Ev("add_counter_failed", CurName, k)>>
    /\ UNCHANGED <<suiteVars, loopVars, counters, enable_ret, measurement, func,
                   duration, nunits, stdout>>

\* let func = benchmark_constructor();  (counter pass)
Construct1 ==
    /\ pc = "construct1"
    /\ func' = Some([id |-> nunits + 1, ctor |-> items[cur].func])
    /\ nunits' = nunits + 1
    /\ events' = Append(events, Ev("construct", CurName, nunits + 1))
    /\ pc' = "enable"
    /\ UNCHANGED <<panic_msg, suiteVars, loopVars, group, counters, enable_ret,
                   measurement, duration, live_groups, stdout>>

\* Mutant of Enable: the result of enable() is acted on at once (`group.enable()?`).
Enable_checked_at_once(r) ==
    /\ pc = "enable"
    /\ enable_ret' = r
    /\ IF r = "ok"
       THEN /\ group' = Some([group[1] EXCEPT !.enabled = TRUE])
            /\ events' = events \o <<Ev("enable", items[cur].name, 0),
                                     Ev("inspect_enable", items[cur].name, 0)>>
            /\ pc' = "exec1"
            /\ UNCHANGED <<panic_msg, live_groups>>
       ELSE /\ Fail
            /\ events' = events \o <<Ev("enable", items[cur].name, 0),
                                     Ev("inspect_enable", items[cur].name, 0),
                                     Ev("enable_failed", items[cur].name, 0)>>
    /\ UNCHANGED <<suiteVars, loopVars, counters, measurement, func, duration, nunits,
                   stdout>>

\* let enable_ret = group.enable();  the result is kept, not acted on.
Enable(r) ==
    /\ pc = "enable"
    /\ enable_ret' = r
    /\ group' = Some([group[1] EXCEPT !.enabled = (r = "ok")])
    /\ events' = Append(events, Ev("enable", CurName, 0))
    /\ pc' = "exec1"
    /\ UNCHANGED <<panic_msg, suiteVars, loopVars, counters, measurement, func,
                   duration, nunits, live_groups, stdout>>

\* The group after unit `id` ran: an enabled group has observed it.
Observe(g, id) ==
    IF g # None /\ g[1].enabled
    THEN Some([g[1] EXCEPT !.observed = Append(@, id)])
    ELSE g

\* let output = func();  (counter pass)
Exec1 ==
    /\ pc = "exec1"
    /\ group' = Observe(group, func[1].id)
    /\ func' = None
    /\ events' = Append(events, Ev("execute", CurName, func[1].id))
    /\ pc' = "disable"
    /\ UNCHANGED <<panic_msg, suiteVars, loopVars, counters, enable_ret, measurement,
                   duration, nunits, live_groups, stdout>>

\* group.disable()? succeeds.
Disable ==
    /\ pc = "disable"
    /\ group' = Some([group[1] EXCEPT !.enabled = FALSE])
    /\ events' = Append(events, Ev("disable", CurName, 0))
    /\ pc' = "check_enable"
    /\ UNCHANGED <<panic_msg, suiteVars, loopVars, counters, enable_ret, measurement,
                   func, duration, nunits, live_groups, stdout>>

\* group.disable()? returns the error.
DisableErr ==
    /\ pc = "disable"
    /\ Fail
    /\ events' = Append(events, Ev("disable_failed", CurName, 0))
    /\ UNCHANGED <<suiteVars, loopVars, counters, enable_ret, measurement, func,
                   duration, nunits, stdout>>

\* Mutant of CheckEnable: the kept result of enable() is never looked at.
CheckEnable_ignores_result ==
    /\ pc = "check_enable"
    /\ pc' = "read"
    /\ events' = Append(events, Ev("inspect_enable", items[cur].name, 0))
    /\ UNCHANGED <<panic_msg, suiteVars, loopVars, bfVars, nunits, live_groups, stdout>>

\* black_box(output); enable_ret?;
CheckEnable ==
    /\ pc = "check_enable"
    /\ IF enable_ret = "ok"
       THEN /\ pc' = "read"
            /\ events' = Append(events, Ev("inspect_enable", CurName, 0))
            /\ UNCHANGED <<panic_msg, group, live_groups>>
       ELSE /\ Fail
            /\ events' = events \o <<Ev("inspect_enable", CurName, 0),
                                     Ev("enable_failed", CurName, 0)>>
    /\ UNCHANGED <<suiteVars, loopVars, counters, enable_ret, measurement, func,
                   duration, nunits, stdout>>

\* What group.read() returns: per counter of the group, which event it counted
\* over which units of work.
Counts(g) == [k \in 1..Len(g.members) |-> [event |-> g.members[k], of |-> g.observed]]

\* let measurement = group.read()?;  succeeds.
Read ==
    /\ pc = "read"
    /\ measurement' = Some(Counts(group[1]))
    /\ events' = Append(events, Ev("read", CurName, 0))
    /\ pc' = "construct2"
    /\ UNCHANGED <<panic_msg, suiteVars, loopVars, group, counters, enable_ret, func,
                   duration, nunits, live_groups, stdout>>

\* Mutant of ReadErr: the error is swallowed and the run goes on with the next
\* iteration.
ReadErr_swallowed ==
    /\ pc = "read"
    /\ group' = None
    /\ live_groups' = live_groups - 1
    /\ events' = Append(events, Ev("read_failed", items[cur].name, 0))
    /\ i' = i + 1
    /\ pc' = "for_iter"
    /\ UNCHANGED <<panic_msg, suiteVars, items, passed, cur, stats, counters, enable_ret,
                   measurement, func, duration, nunits, stdout>>

\* group.read()? returns the error.
ReadErr ==
    /\ pc = "read"
    /\ Fail
    /\ events' = Append(events, Ev("read_failed", CurName, 0))
    /\ UNCHANGED <<suiteVars, loopVars, counters, enable_ret, measurement, func,
                   duration, nunits, stdout>>

\* Mutant of Construct2: the wall-time pass takes the unit of the counter pass
\* again instead of constructing a fresh one.
Construct2_reuses_unit ==
    /\ pc = "construct2"
    /\ func' = Some([id |-> nunits, ctor |-> items[cur].func])
    /\ events' = Append(events, Ev("construct", items[cur].name, nunits))
    /\ pc' = "exec2"
    /\ UNCHANGED <<panic_msg, suiteVars, loopVars, group, counters, enable_ret,
                   measurement, duration, nunits, live_groups, stdout>>

\* let func = benchmark_constructor();  (wall-time pass)
Construct2 ==
    /\ pc = "construct2"
    /\ func' = Some([id |-> nunits + 1, ctor |-> items[cur].func])
    /\ nunits' = nunits + 1
    /\ events' = Append(events, Ev("construct", CurName, nunits + 1))
    /\ pc' = "exec2"
    /\ UNCHANGED <<panic_msg, suiteVars, loopVars, group, counters, enable_ret,
                   measurement, duration, live_groups, stdout>>

\* let start = Instant::now(); let output = func(); let duration = start.elapsed();
Exec2 ==
    /\ pc = "exec2"
    /\ group' = Observe(group, func[1].id)
    /\ duration' = Some([of |-> <<func[1].id>>])
    /\ func' = None
    /\ events' = events \o <<Ev("clock_start", CurName, 0),
                             Ev("execute", CurName, func[1].id),
                             Ev("clock_stop", CurName, 0)>>
    /\ pc' = "return"
    /\ UNCHANGED <<panic_msg, suiteVars, loopVars, counters, enable_ret, measurement,
                   nunits, live_groups, stdout>>

\* The BenchmarkStats benchmark_function builds from the counter handles `c`,
\* the read counts `m` and the elapsed duration `d`.
BenchmarkStats(c, m, d) ==
    [cycles |-> m[c.cycles],
     instructions |-> m[c.instructions],
     branch_misses |-> m[c.branch_misses],
     cache_misses |-> m[c.cache_misses],
     cache_references |-> m[c.cache_references],
     wall_time |-> d]

\* Mutant of Return: the result is put in front of the earlier ones.
Return_prepends ==
    /\ pc = "return"
    /\ stats' = <<BenchmarkStats(counters[1], measurement[1], duration[1])>> \o stats
    /\ i' = i + 1
    /\ group' = None
    /\ live_groups' = live_groups - 1
    /\ counters' = None
    /\ enable_ret' = "unset"
    /\ measurement' = None
    /\ duration' = None
    /\ events' = Append(events, Ev("measured", items[cur].name, i + 1))
    /\ pc' = "for_iter"
    /\ UNCHANGED <<panic_msg, suiteVars, items, passed, cur, func, nunits, stdout>>

\* Mutant of Return: the group is leaked (never closed) when the function returns.
Return_leaks_group ==
    /\ pc = "return"
    /\ stats' = Append(stats, BenchmarkStats(counters[1], measurement[1], duration[1]))
    /\ i' = i + 1
    /\ group' = None
    /\ counters' = None
    /\ enable_ret' = "unset"
    /\ measurement' = None
    /\ duration' = None
    /\ events' = Append(events, Ev("measured", items[cur].name, i + 1))
    /\ pc' = "for_iter"
    /\ UNCHANGED <<panic_msg, suiteVars, items, passed, cur, func, nunits, live_groups,
                   stdout>>

\* benchmark_function returns Ok(result), which drops the group and the counters;
\* run_benchmark pushes the result to `stats`.
Return ==
    /\ pc = "return"
    /\ stats' = Append(stats, BenchmarkStats(counters[1], measurement[1], duration[1]))
    /\ i' = i + 1
    /\ group' = None
    /\ live_groups' = live_groups - 1
    /\ counters' = None
    /\ enable_ret' = "unset"
    /\ measurement' = None
    /\ duration' = None
    /\ events' = Append(events, Ev("measured", CurName, i + 1))
    /\ pc' = "for_iter"
    /\ UNCHANGED <<panic_msg, suiteVars, items, passed, cur, func, nunits, stdout>>

\* ------------------------------------------------------------------ the process

Next ==
    \/ \E name \in NameUniverse : Register(name)
    \/ \E a \in ArgsUniverse : SuiteRun(a)
    \/ SuiteRunParseErr
    \/ ListBenchmarks
    \/ ListBenchmarksErr
    \/ RunBenchmarkSelect
    \/ ForItems
    \/ ForIter
    \/ OutputMessage
    \/ OutputMessageErr
    \/ CreateGroup
    \/ CreateGroupErr
    \/ PrepareCounters
    \/ \E k \in 1..Len(HardwareEvents) : PrepareCountersErr(k)
    \/ Construct1
    \/ \E r \in {"ok", "err"} : Enable(r)
    \/ Exec1
    \/ Disable
    \/ DisableErr
    \/ CheckEnable
    \/ Read
    \/ ReadErr
    \/ Construct2
    \/ Exec2
    \/ Return

Spec == Init /\ [][Next]_vars

\* ------------------------------------------------------------------ claims

\* The names of the messages on the structured output, in the order written.
EmittedNames == [k \in 1..Len(stdout) |-> stdout[k].name]

\* The names the filter kept, in the driver's order.
ItemNames == [k \in 1..Len(items) |-> items[k].name]

Range(s) == {s[k] : k \in 1..Len(s)}

EventIdx(kind) == {k \in 1..Len(events) : events[k].ev = kind}

\* The enumeration of the set S of names in ascending order.
Ascending(S) ==
    CHOOSE s \in Enumerations(S) : \A k \in 1..(Len(s) - 1) : StrLess(s[k], s[k + 1])

\* The positions of the history entries a step adds.
NewSteps == (Len(events) + 1)..Len(events')

\* C1: in execute mode the steps of the measurements and the result messages
\* come in ascending order of the benchmark name, whatever the order of the
\* registrations and whatever order the map hands the entries out in: no step
\* adds a history entry of a smaller name than the entry before it, the
\* messages' names strictly increase, and a finished run has reported the
\* selected names ascending.
C1_AscendingOrder ==
    /\ [](args.mode = "benchmark" =>
            /\ \A k \in 1..(Len(stdout) - 1) : StrLess(stdout[k].name, stdout[k + 1].name)
            /\ pc = "exited_ok" => EmittedNames = Ascending(Range(ItemNames)))
    /\ [][\A k \in NewSteps :
            (k > 1 /\ events'[k - 1].name # <<>>) =>
                ~StrLess(events'[k].name, events'[k - 1].name)]_vars

\* C1 witness: b, a, c registered in that order, no filter, and the finished
\* run measured and reported a, b, c.
C1_Witness ==
    /\ regCalls = <<(<<98>>), (<<97>>), (<<99>>)>>
    /\ args.mode = "benchmark" /\ args.iterations >= 1
    /\ args.include = None /\ args.exclude = None
    /\ pc = "exited_ok"
    /\ EmittedNames = <<(<<97>>), (<<98>>), (<<99>>)>>
    /\ \A n \in {<<97>>, <<98>>, <<99>>} : \E k \in EventIdx("execute") : events[k].name = n

\* How many measurements of benchmark n the history holds.
MeasuredCount(n) ==
    Cardinality({j \in 1..Len(events) : events[j].ev = "measured" /\ events[j].name = n})

\* C2: results are streamed per benchmark.  The step that writes a result
\* message is taken when exactly `iterations` measurements of its benchmark
\* have completed; no step of a benchmark follows its message; and the step
\* that calls a constructor of a benchmark is taken when the message of every
\* selected benchmark with a smaller name is on the output.
C2_StreamedPerBenchmark ==
    [][\A k \in NewSteps :
          LET e == events'[k] IN
          /\ (e.ev = "emit" /\ args.mode = "benchmark") =>
                /\ MeasuredCount(e.name) = args.iterations
                /\ stdout' = Append(stdout, [kind |-> "result", name |-> e.name,
                                             payload |-> stats])
          /\ e.name # <<>> => e.name \notin Range(EmittedNames)
          /\ e.ev = "construct" =>
                \A j \in 1..Len(items) :
                    StrLess(items[j].name, e.name) => items[j].name \in Range(EmittedNames)]_vars

\* C2 witness: two benchmarks, MaxIter iterations each, both reported, and the
\* first message lies before the first constructor call of the second benchmark.
C2_Witness ==
    /\ pc = "exited_ok" /\ args.mode = "benchmark"
    /\ args.iterations = MaxIter
    /\ Len(stdout) = 2
    /\ \A j \in 1..2 : Len(stdout[j].payload) = MaxIter
    /\ \E k \in EventIdx("emit") : \E l \in EventIdx("construct") :
          k < l /\ events[k].name = stdout[1].name /\ events[l].name = stdout[2].name

\* The ids of the units of work constructed for benchmark n, in order.
UnitsOf(n) ==
    LET ofN(e) == e.ev = "construct" /\ e.name = n
        cs == SelectSeq(events, ofN)
    IN  [k \in 1..Len(cs) |-> cs[k].arg]

\* The sample of a measurement whose counter pass ran unit u1 and whose
\* wall-time pass ran unit u2.
SampleOf(u1, u2) ==
    [cycles |-> [event |-> "CPU_CYCLES", of |-> <<u1>>],
     instructions |-> [event |-> "INSTRUCTIONS", of |-> <<u1>>],
     branch_misses |-> [event |-> "BRANCH_MISSES", of |-> <<u1>>],
     cache_misses |-> [event |-> "CACHE_MISSES", of |-> <<u1>>],
     cache_references |-> [event |-> "CACHE_REFERENCES", of |-> <<u1>>],
     wall_time |-> [of |-> <<u2>>]]

\* C3: a run that ends without a failure has written exactly one result
\* message per benchmark the filter passed and nothing else; each message
\* carries the benchmark's name and `iterations` samples, the k-th being the
\* sample of the k-th measurement of that benchmark.
C3_ExactOutput ==
    (pc = "exited_ok" /\ args.mode = "benchmark") =>
        /\ Range(EmittedNames) = {n \in DOMAIN benchmarks : passed[n]}
        /\ Len(stdout) = Cardinality({n \in DOMAIN benchmarks : passed[n]})
        /\ \A j \in 1..Len(stdout) :
              LET units == UnitsOf(stdout[j].name) IN
              /\ stdout[j].kind = "result"
              /\ Len(stdout[j].payload) = args.iterations
              /\ Len(units) = 2 * args.iterations
              /\ \A k \in 1..args.iterations :
                    stdout[j].payload[k] = SampleOf(units[2 * k - 1], units[2 * k])

\* C3 witness: a finished run of two benchmarks with two iterations each.
C3_Witness ==
    /\ pc = "exited_ok" /\ args.mode = "benchmark"
    /\ args.iterations = 2
    /\ Len(stdout) = 2
    /\ stdout[2].payload[2] = SampleOf(7, 8)

MeasureFailKinds ==
    {"group_new_failed", "add_counter_failed", "disable_failed", "enable_failed",
     "read_failed"}

\* C4: a failed measurement ends the run.  The failure is the last step of the
\* history (no retry, no further iteration, no later benchmark), the process
\* has panicked with the suite's failure, no message of the failed benchmark
\* is on the output, and the output holds the complete messages of exactly the
\* benchmarks the loop finished before.
C4_MeasurementFailureAborts ==
    \A k \in 1..Len(events) :
        events[k].ev \in MeasureFailKinds =>
            /\ k = Len(events)
            /\ pc = "panicked" /\ panic_msg = "Benchmark suite has failed"
            /\ \A j \in 1..Len(stdout) : stdout[j].name # events[k].name
            /\ EmittedNames = SubSeq(ItemNames, 1, cur - 1)
            /\ \A j \in 1..Len(stdout) : Len(stdout[j].payload) = args.iterations
            /\ live_groups = 0

\* C4 witness: the second iteration of the second benchmark fails after its
\* first iteration succeeded; only the first benchmark's message is out.
C4_Witness ==
    /\ pc = "panicked"
    /\ cur = 2 /\ i = 1 /\ Len(stats) = 1
    /\ Len(stdout) = 1
    /\ events[Len(events)].ev \in MeasureFailKinds

\* p is a literal prefix of n: n is p followed by some rest.
IsLiteralPrefix(p, n) ==
    \E k \in 0..Len(n) : Len(p) = k /\ \A j \in 1..k : p[j] = n[j]

\* The filter policy as a table over (include, exclude).
FilterTable(n, include, exclude) ==
    IF include # None /\ exclude # None
    THEN IsLiteralPrefix(include[1], n) /\ ~IsLiteralPrefix(exclude[1], n)
    ELSE IF include # None THEN IsLiteralPrefix(include[1], n)
    ELSE IF exclude # None THEN ~IsLiteralPrefix(exclude[1], n)
    ELSE TRUE

\* C5: for every name the filter was asked about, under every combination of
\* the optional prefixes, passes_filter returned what the table gives, with
\* "starts with" meaning literal prefix; so a name that starts with both the
\* include and the exclude prefix is rejected.
C5_FilterTable ==
    \A n \in DOMAIN passed : passed[n] = FilterTable(n, args.include, args.exclude)

\* C5 witness: both prefixes given, a name that starts with both was rejected,
\* and a name that starts with the include prefix alone was accepted.
C5_Witness ==
    /\ args.include # None /\ args.exclude # None
    /\ \E n \in DOMAIN passed :
          /\ IsLiteralPrefix(args.include[1], n)
          /\ IsLiteralPrefix(args.exclude[1], n)
          /\ ~passed[n]
    /\ \E n \in DOMAIN passed :
          /\ IsLiteralPrefix(args.include[1], n)
          /\ ~IsLiteralPrefix(args.exclude[1], n)
          /\ passed[n]

\* The registered names the configuration selects: those that start with
\* args.include (when given) and do not start with args.exclude (when given).
ConfigSelected ==
    {n \in DOMAIN benchmarks :
        /\ args.include # None => StartsWith(n, args.include[1])
        /\ args.exclude # None => ~StartsWith(n, args.exclude[1])}

\* The names of the benchmarks of which a unit of work was executed.
MeasuredNames == {events[k].name : k \in EventIdx("execute")}

\* C6: in execute mode the driver uses args.include as the include prefix and
\* args.exclude as the exclude prefix.  Only benchmarks the configuration
\* selects are ever measured, the benchmarks the driver sets out to measure
\* are exactly those, and a run that finishes (with at least one iteration to
\* measure) has measured exactly those.
C6_MeasuredAreSelected ==
    args.mode = "benchmark" =>
        /\ MeasuredNames \subseteq ConfigSelected
        /\ pc # "run_benchmark" => Range(ItemNames) = ConfigSelected
        /\ (pc = "exited_ok" /\ args.iterations > 0) => MeasuredNames = ConfigSelected

\* C6 witness: include "a", exclude "ab", with a, ab and b registered: the
\* finished run measured a alone.
C6_Witness ==
    /\ pc = "exited_ok" /\ args.mode = "benchmark" /\ args.iterations > 0
    /\ args.include = Some(<<97>>) /\ args.exclude = Some(<<97, 98>>)
    /\ DOMAIN benchmarks = {<<97>>, <<97, 98>>, <<98>>}
    /\ MeasuredNames = {<<97>>}

\* Some name was passed to `register` more than once.
RegisteredTwice == \E j, k \in 1..Len(regCalls) : j < k /\ regCalls[j] = regCalls[k]

\* C7: once a name is registered a second time the process has panicked in
\* `register`, at that very call (it is the last call, and the calls before it
\* are free of duplicates), the driver has not run (no command line parsed, no
\* step taken), no constructor was called, no unit of work was executed, no
\* counter group was opened and nothing was written to the output.
C7_DuplicateAbortsInRegister ==
    RegisteredTwice =>
        /\ pc = "panicked" /\ panic_msg = "registered twice"
        /\ \E j \in 1..(Len(regCalls) - 1) : regCalls[j] = regCalls[Len(regCalls)]
        /\ \A j, k \in 1..(Len(regCalls) - 1) : j < k => regCalls[j] # regCalls[k]
        /\ args = NoArgs
        /\ events = <<>>
        /\ nunits = 0 /\ live_groups = 0
        /\ stdout = <<>>

\* C7 witness: a, b, a were registered and the process panicked in register.
C7_Witness ==
    /\ regCalls = <<(<<97>>), (<<98>>), (<<97>>)>>
    /\ pc = "panicked" /\ panic_msg = "registered twice"

\* C8: in enumerate mode the emitted list is the same for every registration
\* order and every run over the same set of names, the ascending one (b, a, c
\* yields a, b, c).
C8_ReproducibleListOrder ==
    (pc = "exited_ok" /\ args.mode = "list") =>
        stdout[1].payload = Ascending(DOMAIN benchmarks)

\* C9: enumerate mode has no execution side effects.  No constructor is
\* called, no unit of work is executed, no counter group is opened, no result
\* message is written; and when it ends normally it has written exactly one
\* message, a list holding every registered name exactly once, filtered by
\* nothing.
C9_EnumerateHasNoSideEffects ==
    args.mode = "list" =>
        /\ nunits = 0 /\ live_groups = 0 /\ group = None
        /\ \A k \in 1..Len(events) : events[k].ev \in {"run", "emit"}
        /\ Len(stdout) <= 1
        /\ pc = "exited_ok" =>
              /\ Len(stdout) = 1
              /\ stdout[1].kind = "list"
              /\ Range(stdout[1].payload) = DOMAIN benchmarks
              /\ Len(stdout[1].payload) = Cardinality(DOMAIN benchmarks)
              /\ Range(stdout[1].payload) = Range(regCalls)

\* C9 witness: three names registered, of which a filter on "a" would drop
\* some, and the enumeration listed all three.
C9_Witness ==
    /\ pc = "exited_ok" /\ args.mode = "list"
    /\ Len(stdout) = 1
    /\ Range(stdout[1].payload) = {<<97>>, <<98>>, <<99>>}

\* C10: the steps of the counter pass occur in the order group creation, the
\* five counters, construction of the unit, enable, execution, disable,
\* inspection of the enable result, read.  Every history entry a step adds is
\* directly preceded by the entry the order gives, for the same benchmark; the
\* unit of the counter pass is executed directly after enable and is directly
\* followed by disable; and at the inspection and at the read the group is
\* disabled.
C10_CounterPassOrder ==
    /\ [](pc \in {"check_enable", "read"} => ~group[1].enabled)
    /\ [][\A k \in NewSteps :
            LET e == events'[k]
                PrevIs(d, kind) ==
                    k > d /\ events'[k - d].ev = kind /\ events'[k - d].name = e.name
            IN  /\ e.ev = "add_counter" =>
                      IF e.arg = 1 THEN PrevIs(1, "group_new")
                      ELSE PrevIs(1, "add_counter") /\ events'[k - 1].arg = e.arg - 1
                /\ e.ev = "construct" =>
                      \/ PrevIs(1, "add_counter") /\ events'[k - 1].arg = Len(HardwareEvents)
                      \/ PrevIs(1, "read")
                /\ e.ev = "enable" => PrevIs(1, "construct") /\ PrevIs(2, "add_counter")
                /\ (e.ev = "execute" /\ ~PrevIs(1, "clock_start")) => PrevIs(1, "enable")
                /\ (PrevIs(1, "execute") /\ PrevIs(2, "enable")) =>
                      e.ev \in {"disable", "disable_failed"}
                /\ e.ev = "disable" => PrevIs(1, "execute") /\ PrevIs(2, "enable")
                /\ e.ev = "inspect_enable" => PrevIs(1, "disable")
                /\ e.ev = "read" => PrevIs(1, "inspect_enable")]_vars

\* C10 witness: a counter pass ran through to its read, in the order of the claim.
C10_Witness ==
    /\ pc = "construct2"
    /\ Len(events) >= 12
    /\ [k \in 1..6 |-> events[Len(events) - 6 + k].ev]
           = <<"construct", "enable", "execute", "disable", "inspect_enable", "read">>


\* The kinds of the history entries of one successful measurement, in order.
MeasurementShape ==
    <<"group_new">> \o [k \in 1..Len(HardwareEvents) |-> "add_counter"]
        \o <<"construct", "enable", "execute", "disable", "inspect_enable", "read",
             "construct", "clock_start", "execute", "clock_stop">>

C12_GroupDroppedBeforeNextPass ==
    /\ pc \in {"construct2", "exec2", "return"} => (group = None /\ live_groups = 0)
    /\ pc = "create_group" => (group = None /\ live_groups = 0)


\* The positions at which benchmark_function holds its group.
HoldsGroup ==
    {"prepare_counters", "construct1", "enable", "exec1", "disable", "check_enable",
     "read", "construct2", "exec2", "return"}

\* C13: at most one counter group is open in every state, on success and
\* failure paths alike.  The process holds a group exactly while
\* benchmark_function holds one, a new group is only created when none is
\* open, and none is left open when the process has ended.
C13_AtMostOneGroup ==
    /\ live_groups <= 1
    /\ live_groups = (IF group # None THEN 1 ELSE 0)
    /\ (group # None) = (pc \in HoldsGroup)
    /\ pc = "create_group" => live_groups = 0
    /\ pc \in {"exited_ok", "panicked"} => live_groups = 0

\* C13 witness: the group of the second benchmark's second measurement is open,
\* after three groups were opened and released before it.
C13_Witness ==
    /\ live_groups = 1 /\ pc = "exec1"
    /\ cur = 2 /\ i = 1
    /\ Cardinality(EventIdx("group_new")) = 4


\* The history entries that record a failed step of an execute run.
RunFailKinds == MeasureFailKinds \cup {"emit_failed"}

\* C14: an execute run ends normally exactly when nothing failed.  While the
\* run has not ended and no enable() has failed, a step that does not fail can
\* be taken (so a run in which every measurement and write succeeds goes on
\* until it completes); it
\* has ended with an error only if its last step was a failed measurement or
\* write; a run that ended normally has no failed step in its history; with
\* nothing selected it ends normally without a measurement or a message; and
\* every step that records a failed measurement ends the run with an error.
C14_ExitStatus ==
    /\ [](args.mode = "benchmark" =>
            /\ (pc \notin {"exited_ok", "panicked"} /\ enable_ret # "err") =>
                  ENABLED (Next /\ pc' # "panicked")
            /\ pc = "panicked" =>
                  /\ panic_msg = "Benchmark suite has failed"
                  /\ events[Len(events)].ev \in RunFailKinds
            /\ pc = "exited_ok" =>
                  /\ panic_msg = ""
                  /\ Len(stdout) = Len(items)
                  /\ \A k \in 1..Len(events) : events[k].ev \notin RunFailKinds
            /\ (pc = "exited_ok" /\ ConfigSelected = {}) =>
                  (nunits = 0 /\ stdout = <<>> /\ Len(events) = 1))
    /\ [][\A k \in NewSteps :
            events'[k].ev \in MeasureFailKinds =>
                (pc' = "panicked" /\ panic_msg' = "Benchmark suite has failed")]_vars

\* C14 witness: benchmarks are registered, the filter selects none of them, and
\* the run ended normally without a measurement and without a message.
C14_Witness ==
    /\ pc = "exited_ok" /\ args.mode = "benchmark" /\ args.iterations >= 1
    /\ Len(regCalls) >= 2
    /\ ConfigSelected = {} /\ items = <<>>
    /\ nunits = 0 /\ stdout = <<>>


\* The last step of the history was a failed write of a result message.
WriteJustFailed == events # <<>> /\ events[Len(events)].ev = "emit_failed"

\* C15: a failed write of a result message is fatal.  After it the process has
\* panicked with the suite's failure, the output holds the messages of the
\* benchmarks before the one whose write failed and no other, and no further
\* step is taken: no later benchmark is measured or reported.
C15_WriteErrorIsFatal ==
    /\ [](WriteJustFailed =>
            /\ pc = "panicked" /\ panic_msg = "Benchmark suite has failed"
            /\ EmittedNames = SubSeq(ItemNames, 1, cur - 1)
            /\ nunits = 2 * args.iterations * cur)
    /\ [][~WriteJustFailed]_vars

\* C15 witness: the write of the first of two selected benchmarks failed after
\* its measurements; the second was neither measured nor reported.
C15_Witness ==
    /\ WriteJustFailed
    /\ pc = "panicked"
    /\ Len(items) = 2 /\ cur = 1 /\ args.iterations = 2
    /\ nunits = 4 /\ stdout = <<>>


\* The kinds of the n history entries before position k of the history after
\* a step.
KindsBefore(k, n) == [j \in 1..n |-> events'[k - n - 1 + j].ev]

\* C16: a failure of enable, disable or read surfaces only after the unit of
\* the counter pass has run.  The step that records the failure comes after
\* enable and the execution of the unit (for a failed enable or read also after
\* disable and the inspection of the enable result), ends the run with an
\* error, pushes no sample, writes nothing and constructs no second unit: the
\* unit that ran is the last one constructed.  The measurement never gets to
\* its read or its wall-time pass with a failed enable.
C16_CounterFailureAfterRegion ==
    /\ [](pc \in {"read", "construct2", "exec2", "return"} => enable_ret = "ok")
    /\ [](pc \in {"construct2", "exec2", "return"} => measurement # None)
    /\ [][\A k \in NewSteps :
            LET e == events'[k] IN
            /\ e.ev = "disable_failed" =>
                  k > 2 /\ KindsBefore(k, 2) = <<"enable", "execute">>
            /\ e.ev \in {"enable_failed", "read_failed"} =>
                  /\ k > 4
                  /\ KindsBefore(k, 4) = <<"enable", "execute", "disable", "inspect_enable">>
                  /\ (e.ev = "enable_failed") = (enable_ret = "err")
            /\ e.ev \in {"enable_failed", "disable_failed", "read_failed"} =>
                  /\ pc' = "panicked"
                  /\ stats' = stats /\ stdout' = stdout
                  /\ nunits' = nunits /\ func = None
                  /\ \E j \in (k - 3)..(k - 1) :
                        events'[j] = Ev("execute", e.name, nunits)]_vars

\* C16 witness: enable failed in the second measurement of a benchmark; its
\* unit (the third constructed) was executed and the group disabled before the
\* run ended with an error, with the one earlier sample and three units.
C16_Witness ==
    /\ pc = "panicked" /\ enable_ret = "err"
    /\ events[Len(events)].ev = "enable_failed"
    /\ events[Len(events) - 3] = Ev("execute", items[cur].name, 3)
    /\ events[Len(events) - 2].ev = "disable"
    /\ nunits = 3 /\ Len(stats) = 1


\* The last step of the history was a failed creation of the group or of one
\* of its counters.
SetupJustFailed ==
    events # <<>> /\ events[Len(events)].ev \in {"group_new_failed", "add_counter_failed"}

\* C17: counter setup is all or nothing.  A unit of work is only constructed
\* or executed, and counts are only read, with a group that holds all five
\* counters; the step that records a failed creation of the group or of the
\* k-th counter comes right after the creation steps before it, constructs and
\* executes nothing and ends the run with an error; and no step follows it (no
\* retry).
C17_CounterSetupAllOrNothing ==
    /\ [](pc \in (HoldsGroup \ {"prepare_counters"}) =>
            /\ group[1].members = HardwareEvents
            /\ counters # None)
    /\ [](SetupJustFailed => (pc = "panicked" /\ func = None /\ live_groups = 0))
    /\ [][~SetupJustFailed]_vars
    /\ [][\A k \in NewSteps :
            LET e == events'[k] IN
            /\ e.ev \in {"construct", "execute", "read"} =>
                  (group' # None /\ group'[1].members = HardwareEvents)
            /\ e.ev = "group_new_failed" =>
                  /\ events'[k - 1].ev \in {"run", "measured", "emit"}
                  /\ pc' = "panicked" /\ nunits' = nunits /\ stats' = stats
            /\ e.ev = "add_counter_failed" =>
                  /\ e.arg \in 1..Len(HardwareEvents)
                  /\ KindsBefore(k, e.arg)
                        = <<"group_new">> \o [j \in 1..(e.arg - 1) |-> "add_counter"]
                  /\ pc' = "panicked" /\ nunits' = nunits /\ stats' = stats]_vars

\* C17 witness: the third counter could not be created; the run ended with an
\* error before any unit of work was constructed.
C17_Witness ==
    /\ SetupJustFailed /\ pc = "panicked"
    /\ events[Len(events)] = Ev("add_counter_failed", items[cur].name, 3)
    /\ events[Len(events) - 1] = Ev("add_counter", items[cur].name, 2)
    /\ nunits = 0


\* C18: registry invariant.  As long as no registration has aborted, the
\* registry holds exactly the registered names, as many entries as register
\* calls were made, and the entry of a name is the wrapper of the constructor
\* registered under that name; the constructor a measurement invokes for a
\* benchmark is the one registered under its name.
C18_RegistryInvariant ==
    panic_msg # "registered twice" =>
        /\ DOMAIN benchmarks = Range(regCalls)
        /\ Cardinality(DOMAIN benchmarks) = Len(regCalls)
        /\ \A k \in 1..Len(regCalls) : benchmarks[regCalls[k]] = k
        /\ \A j \in 1..Len(items) :
              \E k \in 1..Len(regCalls) : items[j] = [name |-> regCalls[k], func |-> k]
        /\ func # None => \E k \in 1..Len(regCalls) : CurName = regCalls[k] /\ func[1].ctor = k

\* C18 witness: three registrations under distinct names; the benchmark
\* registered last sorts first and its unit of work comes from the third
\* constructor.
C18_Witness ==
    /\ Len(regCalls) = 3 /\ Cardinality(DOMAIN benchmarks) = 3
    /\ pc = "exec1" /\ cur = 1
    /\ CurName = regCalls[3] /\ func[1].ctor = 3


\* The registered names that do not pass the filter of the configuration.
NotPassing == {n \in DOMAIN benchmarks : ~FilterTable(n, args.include, args.exclude)}

\* C19: a benchmark whose name does not pass the filter is left untouched by
\* an execute run: no step of the run (constructor call, execution, counter
\* work, message) carries its name and no message on the output is about it;
\* and when the run has finished without a failure the constructor of every
\* benchmark that passes was called exactly 2 * iterations times.
C19_NonPassingUntouched ==
    /\ [][args'.mode = "benchmark" =>
            /\ \A k \in NewSteps : events'[k].name \notin NotPassing'
            /\ \A k \in (Len(stdout) + 1)..Len(stdout') : stdout'[k].name \notin NotPassing']_vars
    /\ []((pc = "exited_ok" /\ args.mode = "benchmark") =>
            /\ \A n \in NotPassing : UnitsOf(n) = <<>>
            /\ \A n \in (DOMAIN benchmarks) \ NotPassing :
                  Len(UnitsOf(n)) = 2 * args.iterations)

\* C19 witness: a finished run of two iterations over a and b that excludes
\* "a": b's constructor was called four times, a's never.
C19_Witness ==
    /\ pc = "exited_ok" /\ args.mode = "benchmark" /\ args.iterations = 2
    /\ DOMAIN benchmarks = {<<97>>, <<98>>} /\ NotPassing = {<<97>>}
    /\ Len(UnitsOf(<<98>>)) = 4 /\ UnitsOf(<<97>>) = <<>>


\* C20: every result message on the output holds at least one BenchmarkStats,
\* whatever iteration count the run was given.
C20_ResultHasStats ==
    \A j \in 1..Len(stdout) : stdout[j].kind = "result" => Len(stdout[j].payload) >= 1

====
